---------------------------- MODULE Spec2Model ----------------------------
(***************************************************************************)
(* A model of the PS/2 protocol engine of synaptics_touchpad:              *)
(*   - the interrupt-driven receiver bit_received (src/src/ps2.cpp),       *)
(*   - the synchronous command transaction ps2_command with write_byte     *)
(*     and read_byte (src/src/ps2.cpp),                                    *)
(*   - the Synaptics command layer special_command, status_request and     *)
(*     init (src/src/synaptics.cpp),                                       *)
(*   - write_byte statement by statement, with the operations it makes on  *)
(*     the clock and data lines (src/src/ps2.cpp),                         *)
(*   - hid::report (src/src/hid.h) and RingBuffer (src/src/synaptics.h).   *)
(*                                                                         *)
(* The target is an AVR (ATmega32u4, ps2.cpp:27-31): cli()/sei() clear and *)
(* set the global interrupt flag, a falling clock edge latches the         *)
(* external-interrupt flag, and the handler attached at ps2.cpp:226 runs   *)
(* only while the global flag is set.                                      *)
(***************************************************************************)
EXTENDS Integers, Sequences, FiniteSets, TLC

VARIABLES
    \* receiver state, ps2.cpp:69-71
    receive_index, receive_buffer, parity,
    \* AVR interrupt state: global enable (cli/sei) and the latched edge
    sreg_i, intf,
    \* host control: where the foreground code is, and the callers above it
    pc, stack,
    \* ps2_command's parameters and locals, ps2.cpp:229-245
    command, args, result_ptr, result, send, receive, i,
    \* write_byte's local ack and its return value, ps2.cpp:210-214
    ack, wb_ret,
    \* observers: the bits the handler sampled in the current 11-edge window,
    \* the callback invocations and the diagnostics of that window, and the
    \* frame position at which the last transaction cut in (-1 once an edge
    \* has been accepted since)
    sampled, calls, errs, entry_index,
    \* observers: the byte operations of the current command, and the bytes
    \* written and the commands issued in the current top-level call
    oplog, wire, cmdlog,
    \* wait-level view of a transaction: the wait_clock calls still to make,
    \* the clock line's level and the milliseconds elapsed in the current wait
    wcall, waits, clock_line, elapsed,
    \* observer: whether a write of the current command was not acknowledged
    nacked,
    \* observers of the step just taken: the value ps2_command returned if
    \* the step ended one ("none" otherwise), and what digitalRead(clock_pin_)
    \* returned if the step was a run of the handler (-1 otherwise)
    cmd_ret, clock_seen,
    \* observers: the edges the handler accepted and the callback invocations
    \* it made, counted up to MaxEdges edges
    edges, delivered,
    \* write_byte statement by statement, ps2.cpp:164-215: its position, its
    \* argument as passed, the locals data, parity and i, the line-control
    \* bit it sampled, and the operations it has performed on the two lines
    tx_pc, tx_byte, tx_data, tx_parity, tx_i, line_control, line_ops,
    \* hid::report, hid.h:49-58: its position, its five arguments, the local
    \* array m, the stores made outside m, and what SendReport was given
    report_pc, report_args, report_m, report_oob, report_sent,
    \* RingBuffer<T, N>, synaptics.h:16-60: its members; observers: the items
    \* pushed successfully and not yet popped, and the last call's outcome
    m_buffer, m_size, m_front, m_back, rb_fifo, rb_ret

rxvars    == <<receive_index, receive_buffer, parity>>
irqvars   == <<sreg_i, intf>>
cmdvars   == <<command, args, result_ptr, result, send, receive, i>>
wbvars    == <<ack, wb_ret>>
winvars   == <<sampled, calls, errs, entry_index>>
logvars   == <<oplog, wire, cmdlog>>
waitvars  == <<wcall, waits, clock_line, elapsed>>
countvars == <<edges, delivered>>
ghostvars == <<nacked, cmd_ret, clock_seen, countvars>>
txvars    == <<tx_pc, tx_byte, tx_data, tx_parity, tx_i, line_control, line_ops>>
hidvars   == <<report_pc, report_args, report_m, report_oob, report_sent>>
rbvars    == <<m_buffer, m_size, m_front, m_back, rb_fifo, rb_ret>>
compvars  == <<txvars, hidvars, rbvars>>
vars      == <<rxvars, irqvars, pc, stack, cmdvars, wbvars, winvars, logvars, waitvars,
               ghostvars, compvars>>

---------------------------------------------------------------------------
(* Program constants *)

LOW  == 0
HIGH == 1
ACK  == 250                      \* 0xFA
PSMOUSE_CMD_SETSCALE11 == 230    \* 0x00e6
PSMOUSE_CMD_SETRATE    == 4339   \* 0x10f3
PSMOUSE_CMD_ENABLE     == 244    \* 0x00f4
PSMOUSE_CMD_DISABLE    == 245    \* 0x00f5
PSMOUSE_CMD_RESET_BAT  == 767    \* 0x02ff
PSMOUSE_CMD_SETRES     == 4328   \* 0x10e8
PSMOUSE_CMD_GETINFO    == 1001   \* 0x03e9

(* Bounds of the model *)

MaxSend    == 2     \* send counts the client's descriptors range over
MaxReceive == 2     \* receive counts the client's descriptors range over
MaxEdges   == 23    \* accepted edges the edge counters follow
RingN      == 3     \* the capacity N of the RingBuffer<T, N> followed

Bits        == {0, 1}
Bytes       == 0..255
Opcodes     == {233, 243}        \* opcodes of the client's generic descriptors
ArgBytes    == {0, 200}          \* argument bytes the client passes
DeviceBytes == {250, 0, 170}     \* bytes the device answers with

---------------------------------------------------------------------------
(* Fixed-width arithmetic *)

RECURSIVE BitOr(_, _)
BitOr(a, b) ==
    IF a = 0 THEN b
    ELSE IF b = 0 THEN a
    ELSE (IF a % 2 = 1 \/ b % 2 = 1 THEN 1 ELSE 0) + 2 * BitOr(a \div 2, b \div 2)

RECURSIVE BitXor(_, _)
BitXor(a, b) ==
    IF a = 0 THEN b
    ELSE IF b = 0 THEN a
    ELSE (IF a % 2 # b % 2 THEN 1 ELSE 0) + 2 * BitXor(a \div 2, b \div 2)

RECURSIVE BitAnd(_, _)
BitAnd(a, b) ==
    IF a = 0 \/ b = 0 THEN 0
    ELSE (IF a % 2 = 1 /\ b % 2 = 1 THEN 1 ELSE 0) + 2 * BitAnd(a \div 2, b \div 2)

ShiftLeft(x, n)  == x * (2 ^ n)
ShiftRight(x, n) == x \div (2 ^ n)
U8(x)            == x % 256

---------------------------------------------------------------------------
(* The receiver: ps2.cpp:69-120 *)

\* (faulty variant: the frame in progress is kept)
disable_interrupt_keeps_frame ==
    /\ sreg_i' = FALSE
    /\ UNCHANGED <<receive_index, receive_buffer, parity>>

\* (faulty variant: interrupts stay enabled)
disable_interrupt_no_cli ==
    /\ sreg_i' = sreg_i
    /\ receive_index' = 0
    /\ receive_buffer' = 0
    /\ parity' = 0

\* cli(); receive_index = 0; receive_buffer = 0; parity = 0;
disable_interrupt ==
    /\ sreg_i' = FALSE
    /\ receive_index' = 0
    /\ receive_buffer' = 0
    /\ parity' = 0

\* sei();
enable_interrupt == sreg_i' = TRUE

\* the step is neither a return of ps2_command nor a run of the handler
NoEvent == cmd_ret' = "none" /\ clock_seen' = -1

\* the client's callback, observed: its argument joins the window's calls
byte_received_(log, b) == Append(log, b)

\* (faulty variant: a frame with a parity error is dropped)
DeliverFrameIfParityOk(log, buf, par) ==
    IF par = 1 THEN byte_received_(log, buf) ELSE log

\* byte_received_(receive_buffer); at the stop bit, whatever parity says
DeliverFrame(log, buf, par) == byte_received_(log, buf)

\* (faulty variant: shifted by receive_index)
StoreBitAtIndex(buf, bit, idx) == U8(BitOr(buf, ShiftLeft(bit, idx)))

\* receive_buffer |= bit << (receive_index - 1);
StoreBit(buf, bit, idx) == U8(BitOr(buf, ShiftLeft(bit, idx - 1)))

\* (faulty variant: |= for ^=)
UpdateParityOr(par, bit) == BitOr(par, bit)

\* parity ^= bit;
UpdateParity(par, bit) == BitXor(par, bit)

\* (faulty variant: the clock line is not looked at again)
SpuriousNever(clock) == FALSE

\* if (digitalRead(clock_pin_) != LOW) return;
Spurious(clock) == clock # LOW

\* The handler attached to the falling clock edge. clock is what
\* digitalRead(clock_pin_) returns, bit what read_bit() returns.
bit_received(clock, bit) ==
    IF Spurious(clock)
    THEN /\ clock_seen' = clock
         /\ UNCHANGED <<rxvars, winvars, edges, delivered>>
    ELSE
      LET fresh == Len(sampled) \in {0, 11}
          c0    == IF fresh THEN <<>> ELSE calls
          e0    == IF fresh THEN {} ELSE errs
      IN
      /\ sampled' = IF fresh THEN <<bit>> ELSE Append(sampled, bit)
      /\ entry_index' = -1
      /\ IF receive_index = 0
         THEN /\ errs' = e0 \cup (IF bit # LOW THEN {"Start bit error."} ELSE {})
              /\ calls' = c0
              /\ receive_index' = receive_index + 1
              /\ UNCHANGED <<receive_buffer, parity>>
         ELSE IF receive_index >= 1 /\ receive_index <= 8
         THEN /\ receive_buffer' = StoreBit(receive_buffer, bit, receive_index)
              /\ parity' = UpdateParity(parity, bit)
              /\ errs' = e0
              /\ calls' = c0
              /\ receive_index' = receive_index + 1
         ELSE IF receive_index = 9
         THEN /\ parity' = UpdateParity(parity, bit)
              /\ errs' = e0 \cup (IF parity' # 1 THEN {"Parity bit error."} ELSE {})
              /\ calls' = c0
              /\ receive_index' = receive_index + 1
              /\ UNCHANGED receive_buffer
         ELSE IF receive_index = 10
         THEN /\ errs' = e0 \cup (IF bit # HIGH THEN {"Stop bit error."} ELSE {})
              /\ calls' = DeliverFrame(c0, receive_buffer, parity)
              /\ receive_buffer' = 0
              /\ receive_index' = 0
              /\ parity' = 0
         ELSE /\ receive_index' = receive_index + 1
              /\ errs' = e0
              /\ calls' = c0
              /\ UNCHANGED <<receive_buffer, parity>>
      /\ clock_seen' = clock
      /\ edges' = IF edges < MaxEdges THEN edges + 1 ELSE edges
      /\ delivered' = IF edges < MaxEdges
                      THEN delivered + Len(calls') - Len(c0)
                      ELSE delivered


---------------------------------------------------------------------------
(* The environment: the frames the device puts on the line.  A frame is   *)
(* the 11 bits the host samples: start, 8 data bits LSB-first, parity,    *)
(* stop.                                                                  *)

Bit(x, k) == (x \div (2 ^ k)) % 2

OddParity(b) ==
    (1 + Bit(b, 0) + Bit(b, 1) + Bit(b, 2) + Bit(b, 3)
       + Bit(b, 4) + Bit(b, 5) + Bit(b, 6) + Bit(b, 7)) % 2

Frame(b) ==
    <<0, Bit(b, 0), Bit(b, 1), Bit(b, 2), Bit(b, 3),
         Bit(b, 4), Bit(b, 5), Bit(b, 6), Bit(b, 7), OddParity(b), 1>>

Flip(f, k) == [f EXCEPT ![k] = 1 - f[k]]

\* what the device answers a write or a query with: well-formed frames of
\* DeviceBytes, and the same frames with a wrong parity bit or start bit
ReplyFrames ==
    {Frame(b) : b \in DeviceBytes}
      \cup {Flip(Frame(b), 10) : b \in DeviceBytes}
      \cup {Flip(Frame(b), 1) : b \in DeviceBytes}

---------------------------------------------------------------------------
(* Synchronous read and write: ps2.cpp:124-215 *)

\* (faulty variant: most significant bit first)
RECURSIVE ReadByteLoopMsbFirst(_, _, _)
ReadByteLoopMsbFirst(f, k, data) ==
    IF k < 8
    THEN ReadByteLoopMsbFirst(f, k + 1, U8(BitOr(data, ShiftLeft(f[k + 2], 7 - k))))
    ELSE data

\* for (int i = 0; i < 8; i++) { ... data |= bit << i; ... }
RECURSIVE ReadByteLoop(_, _, _)
ReadByteLoop(f, k, data) ==
    IF k < 8
    THEN ReadByteLoop(f, k + 1, U8(BitOr(data, ShiftLeft(f[k + 2], k))))
    ELSE data

\* the byte read_byte returns when it samples the 11 bits f
read_byte(f) == ReadByteLoop(f, 0, 0)

\* for (...) { ... parity ^= bit; }
RECURSIVE ReadByteParity(_, _, _)
ReadByteParity(f, k, par) ==
    IF k < 8 THEN ReadByteParity(f, k + 1, BitXor(par, f[k + 2])) ELSE par

\* the diagnostics read_byte prints when it samples the 11 bits f; none of
\* them ends the read
ReadByteErrs(f) ==
    (IF f[1] # LOW THEN {"Start bit error."} ELSE {})
      \cup (IF BitXor(ReadByteParity(f, 0, 0), f[10]) # 1
            THEN {"Parity error."} ELSE {})
      \cup (IF f[11] # 1 THEN {"Stop bit error."} ELSE {})

\* (faulty variant: the byte read is handed to the client's callback)
ReadByteCallsBack(log, b) == byte_received_(log, b)

\* what read_byte does to the callback's log: nothing, data is returned to
\* the caller and byte_received_ is not called (ps2.cpp:124-161)
ReadByteCalls(log, b) == log

\* The value write_byte returns once it has read ack.  Only the NACK path
\* has a return statement (ps2.cpp:211-214); on ACK control flows off the
\* end of a function returning bool, and the value is whatever the build
\* leaves in the return register.
WriteByteReturn(a) == IF a # ACK THEN {FALSE} ELSE BOOLEAN

\* write_byte(data), whole: request-to-send, the frame, the line-control
\* bit lc, then the ACK frame f read by read_byte.  Pulling the clock low
\* is itself a falling edge on the interrupt pin.
write_byte(data) ==
    \E lc \in Bits, f \in ReplyFrames :
        /\ ack' = read_byte(f)
        /\ wb_ret' \in WriteByteReturn(read_byte(f))
        /\ oplog' = Append(oplog, <<"write_byte", data>>)
        /\ wire' = Append(wire, data)
        /\ intf' = TRUE
        /\ nacked' = (nacked \/ read_byte(f) # ACK)

---------------------------------------------------------------------------
(* The command transaction: ps2.cpp:229-255 *)

\* (faulty variant: the receive nibble taken for the send count)
SendCountFromReceiveNibble(cmd) == BitAnd(ShiftRight(cmd, 8), 15)

\* unsigned int send = (command >> 12) & 0x0F;
SendCount(cmd) == BitAnd(ShiftRight(cmd, 12), 15)

\* unsigned int receive = (command >> 8) & 0x0F;
ReceiveCount(cmd) == BitAnd(ShiftRight(cmd, 8), 15)

\* (faulty variant: mask 0x7F)
OpcodeLow7(cmd) == BitAnd(cmd, 127)

\* command & 0xFF
Opcode(cmd) == BitAnd(cmd, 255)

\* (faulty variant: a write that was not acknowledged ends the command)
AfterArgAbortsOnNack(k) ==
    IF ack' # ACK THEN "enable_interrupt"
    ELSE IF k < send THEN "write_args"
    ELSE IF 0 < receive THEN "read_result" ELSE "enable_interrupt"

\* where ps2_command goes on once k bytes of the current loop are done
AfterOpcode ==
    IF 0 < send THEN "write_args"
    ELSE IF 0 < receive THEN "read_result" ELSE "enable_interrupt"

AfterArg(k) ==
    IF k < send THEN "write_args"
    ELSE IF 0 < receive THEN "read_result" ELSE "enable_interrupt"

AfterResult(k) == IF k < receive THEN "read_result" ELSE "enable_interrupt"

\* ps2_command(cmd, a, rp) from its entry to its first write:
\* disable_interrupt() and the two counts.  The observers of the receive
\* window restart here: the frame in progress is abandoned.
ps2_command_begin(cmd, a, rp) ==
    /\ disable_interrupt
    /\ command' = cmd
    /\ args' = a
    /\ result_ptr' = rp
    /\ send' = SendCount(cmd)
    /\ receive' = ReceiveCount(cmd)
    /\ i' = 0
    /\ pc' = "write_opcode"
    /\ sampled' = <<>>
    /\ calls' = <<>>
    /\ errs' = {}
    /\ entry_index' = receive_index
    /\ oplog' = <<>>
    /\ cmdlog' = Append(cmdlog, <<cmd, a>>)
    /\ nacked' = FALSE
    /\ NoEvent
    /\ UNCHANGED <<intf, ack, wb_ret, wire, waitvars, countvars, compvars>>

\* write_byte(command & 0xFF);
Cmd_write_opcode ==
    /\ pc = "write_opcode"
    /\ write_byte(Opcode(command))
    /\ pc' = AfterOpcode
    /\ NoEvent
    /\ UNCHANGED <<rxvars, sreg_i, stack, cmdvars, winvars, cmdlog, waitvars,
                   countvars, compvars>>

\* for (int i = 0; i < send; i++) write_byte(args[i]);
Cmd_write_arg ==
    /\ pc = "write_args"
    /\ write_byte(args[i + 1])
    /\ i' = IF i + 1 < send THEN i + 1 ELSE 0
    /\ pc' = AfterArg(i + 1)
    /\ UNCHANGED <<rxvars, sreg_i, stack, command, args, result_ptr, result,
                   send, receive, winvars, cmdlog, waitvars,
                   countvars, compvars>>
    /\ NoEvent

\* for (int i = 0; i < receive; i++) {
\*   uint8_t response = read_byte();
\*   if (result != nullptr) result[i] = response; }
Cmd_read_result ==
    /\ pc = "read_result"
    /\ \E f \in ReplyFrames :
         LET response == read_byte(f) IN
         /\ result' = IF result_ptr # "nullptr"
                      THEN [result EXCEPT ![i + 1] = response]
                      ELSE result
         /\ oplog' = Append(oplog, <<"read_byte", response>>)
         /\ calls' = ReadByteCalls(calls, response)
    /\ UNCHANGED wire
    /\ intf' = TRUE
    /\ i' = IF i + 1 < receive THEN i + 1 ELSE 0
    /\ pc' = AfterResult(i + 1)
    /\ UNCHANGED <<rxvars, sreg_i, stack, command, args, result_ptr,
                   send, receive, wbvars, sampled, errs, entry_index, cmdlog,
                   waitvars, nacked, countvars, compvars>>
    /\ NoEvent

\* enable_interrupt(); return true;  After sei() only the return is left,
\* which touches nothing the handler touches, so both are one step.  The
\* locals die with the call; a top-level call's observers are cleared when
\* it returns to the client.
Cmd_return ==
    /\ pc = "enable_interrupt"
    /\ enable_interrupt
    /\ command' = 0 /\ args' = <<>> /\ result_ptr' = "nullptr"
    /\ send' = 0 /\ receive' = 0 /\ i' = 0
    /\ ack' = 0 /\ wb_ret' = TRUE
    /\ IF stack = <<>>
       THEN /\ pc' = "idle"
            /\ result' = <<>>
            /\ oplog' = <<>>
            /\ wire' = <<>>
            /\ cmdlog' = <<>>
       ELSE /\ pc' = "synaptics"
            /\ UNCHANGED <<result, oplog, wire, cmdlog>>
    /\ cmd_ret' = "true"
    /\ clock_seen' = -1
    /\ nacked' = FALSE
    /\ UNCHANGED <<rxvars, intf, stack, winvars, waitvars, countvars, compvars>>

\* the client calls ps2_command with a descriptor of its own
Client_ps2_command ==
    /\ pc = "idle"
    /\ \E s \in 0..MaxSend, r \in 0..MaxReceive, op \in Opcodes,
          rp \in {"nullptr", "buffer"} :
         \E a \in [1..s -> ArgBytes] :
            /\ ps2_command_begin(s * 4096 + r * 256 + op, a, rp)
            /\ result' = IF rp = "nullptr" THEN <<>> ELSE [k \in 1..r |-> -1]
    /\ UNCHANGED stack

\* void reset() { ps2_command(PSMOUSE_CMD_RESET_BAT, nullptr, nullptr); }
reset ==
    /\ pc = "idle"
    /\ ps2_command_begin(PSMOUSE_CMD_RESET_BAT, <<>>, "nullptr")
    /\ UNCHANGED <<stack, result>>

\* void enable() { ps2_command(PSMOUSE_CMD_ENABLE, nullptr, nullptr); }
enable ==
    /\ pc = "idle"
    /\ ps2_command_begin(PSMOUSE_CMD_ENABLE, <<>>, "nullptr")
    /\ UNCHANGED <<stack, result>>

\* void disable() { ps2_command(PSMOUSE_CMD_DISABLE, nullptr, nullptr); }
disable ==
    /\ pc = "idle"
    /\ ps2_command_begin(PSMOUSE_CMD_DISABLE, <<>>, "nullptr")
    /\ UNCHANGED <<stack, result>>

---------------------------------------------------------------------------
(* The interrupt: ps2.cpp:226 *)

\* a falling edge of the clock line latches the interrupt flag, whether or
\* not interrupts are enabled
ClockFalls ==
    /\ ~intf
    /\ intf' = TRUE
    /\ UNCHANGED <<rxvars, sreg_i, pc, stack, cmdvars, wbvars, winvars,
                   logvars, waitvars, nacked, countvars, compvars>>
    /\ NoEvent

\* with interrupts enabled a latched edge runs the handler once
Interrupt ==
    /\ sreg_i
    /\ intf
    /\ intf' = FALSE
    /\ \E clock \in {LOW, HIGH}, bit \in Bits : bit_received(clock, bit)
    /\ cmd_ret' = "none"
    /\ UNCHANGED <<sreg_i, pc, stack, cmdvars, wbvars, logvars, waitvars,
                   nacked, compvars>>

---------------------------------------------------------------------------
(* The Synaptics command layer: synaptics.cpp:10-104.  A frame of stack   *)
(* is a routine in progress: fn its name, a its argument, k its position  *)
(* (special_command's loop variable i, a step of status_request, a line   *)
(* of init's script).                                                     *)

Top        == stack[Len(stack)]
Pop        == SubSeq(stack, 1, Len(stack) - 1)
SetTop(k)  == [stack EXCEPT ![Len(stack)].k = k]
Call(f, x, k0) == [fn |-> f, a |-> x, k |-> k0]

\* (faulty variant: least significant pair first)
ResolutionLowPairFirst(cmd, k) == BitAnd(ShiftRight(cmd, 6 - k), 3)

\* resolution = (command >> i) & 0x03;
Resolution(cmd, k) == BitAnd(ShiftRight(cmd, k), 3)

\* return from a Synaptics routine to its caller, or to the client
Return ==
    /\ stack' = Pop
    /\ IF Pop = <<>>
       THEN /\ pc' = "idle"
            /\ result' = <<>>
            /\ oplog' = <<>>
            /\ wire' = <<>>
            /\ cmdlog' = <<>>
       ELSE /\ pc' = "synaptics"
            /\ UNCHANGED <<result, oplog, wire, cmdlog>>
    /\ UNCHANGED <<rxvars, irqvars, command, args, result_ptr, send, receive,
                   i, wbvars, winvars, waitvars, nacked, countvars, compvars>>
    /\ NoEvent

\* for (int i = 6; i >= 0; i -= 2) {
\*   resolution = (command >> i) & 0x03;
\*   ps2::ps2_command(PSMOUSE_CMD_SETRES, &resolution, nullptr); }
special_command ==
    /\ pc = "synaptics"
    /\ Top.fn = "special_command"
    /\ IF Top.k >= 0
       THEN /\ ps2_command_begin(PSMOUSE_CMD_SETRES,
                                 <<Resolution(Top.a, Top.k)>>, "nullptr")
            /\ stack' = SetTop(Top.k - 2)
            /\ UNCHANGED result
       ELSE Return

\* special_command(arg); ps2::ps2_command(PSMOUSE_CMD_GETINFO, nullptr, result);
status_request ==
    /\ pc = "synaptics"
    /\ Top.fn = "status_request"
    /\ IF Top.k = 0
       THEN /\ stack' = Append(SetTop(1), Call("special_command", Top.a, 6))
            /\ UNCHANGED <<rxvars, irqvars, pc, cmdvars, wbvars, winvars,
                           logvars, waitvars, nacked, countvars, compvars>>
            /\ NoEvent
       ELSE IF Top.k = 1
       THEN /\ ps2_command_begin(PSMOUSE_CMD_GETINFO, <<>>, "buffer")
            /\ stack' = SetTop(2)
            /\ UNCHANGED result
       ELSE Return

\* the calls init makes, in program order (synaptics.cpp:31-103); the
\* parsing and printing between them touch no protocol state
InitScript ==
    << [call |-> "status_request",  cmd |-> 0,   args |-> <<>>],      \* :31
       [call |-> "status_request",  cmd |-> 2,   args |-> <<>>],      \* :37
       [call |-> "status_request",  cmd |-> 8,   args |-> <<>>],      \* :57
       [call |-> "status_request",  cmd |-> 12,  args |-> <<>>],      \* :64
       [call |-> "ps2_command", cmd |-> PSMOUSE_CMD_DISABLE,    args |-> <<>>],     \* :89
       [call |-> "ps2_command", cmd |-> PSMOUSE_CMD_SETSCALE11, args |-> <<>>],     \* :91
       [call |-> "ps2_command", cmd |-> PSMOUSE_CMD_SETSCALE11, args |-> <<>>],     \* :92
       [call |-> "special_command", cmd |-> 197, args |-> <<>>],                    \* :93
       [call |-> "ps2_command", cmd |-> PSMOUSE_CMD_SETRATE,    args |-> <<20>>],   \* :94-95
       [call |-> "ps2_command", cmd |-> PSMOUSE_CMD_SETSCALE11, args |-> <<>>],     \* :97
       [call |-> "ps2_command", cmd |-> PSMOUSE_CMD_SETSCALE11, args |-> <<>>],     \* :98
       [call |-> "special_command", cmd |-> 3,   args |-> <<>>],                    \* :99
       [call |-> "ps2_command", cmd |-> PSMOUSE_CMD_SETRATE,    args |-> <<200>>],  \* :100-101
       [call |-> "ps2_command", cmd |-> PSMOUSE_CMD_ENABLE,     args |-> <<>>] >>   \* :103

\* the line of the script at which mode programming starts (ps2::disable())
ModeProgrammingStart == 5

\* init() runs its script line by line
init ==
    /\ pc = "synaptics"
    /\ Top.fn = "init"
    /\ IF Top.k <= Len(InitScript)
       THEN LET st == InitScript[Top.k] IN
            IF st.call = "ps2_command"
            THEN /\ ps2_command_begin(st.cmd, st.args, "nullptr")
                 /\ stack' = SetTop(Top.k + 1)
                 /\ UNCHANGED result
            ELSE /\ stack' = Append(SetTop(Top.k + 1),
                                    Call(st.call, st.cmd,
                                         IF st.call = "special_command" THEN 6 ELSE 0))
                 /\ UNCHANGED <<rxvars, irqvars, pc, cmdvars, wbvars, winvars,
                                logvars, waitvars, nacked, countvars, compvars>>
                 /\ NoEvent
       ELSE Return

\* the client calls special_command(b)
Client_special_command(b) ==
    /\ pc = "idle"
    /\ pc' = "synaptics"
    /\ stack' = <<Call("special_command", b, 6)>>
    /\ UNCHANGED <<rxvars, irqvars, cmdvars, wbvars, winvars, logvars, waitvars,
                   nacked, countvars, compvars>>
    /\ NoEvent

---------------------------------------------------------------------------
(* write_byte statement by statement: ps2.cpp:164-215.  line_ops lists    *)
(* the operations on the clock and data lines in the order they are made: *)
(* <<"pull_low", pin>>, <<"pull_high", pin>>, <<"wait_clock", level>>,    *)
(* <<"write_bit", bit>>, <<"read_bit", bit read>>, <<"println", 0>> for   *)
(* the line-control diagnostic and <<"read_byte", byte read>>.  The pins  *)
(* are numbered as the two lines: clock 0, data 1.  A wait_clock that     *)
(* gives up after 25 ms returns like one that saw its level, so the       *)
(* operations that follow are the same.                                   *)

clock_pin_ == 0
data_pin_  == 1

\* everything write_byte on its own leaves alone
notx == <<rxvars, irqvars, pc, stack, cmdvars, winvars, logvars, waitvars,
          ghostvars, hidvars, rbvars>>

\* (faulty variant: most significant bit first)
TxBitMsb(data) == BitAnd(ShiftRight(data, 7), 1)

\* uint8_t bit = data & 0x01;
TxBit(data) == BitAnd(data, 1)

\* (faulty variant: the parity is not updated)
TxParityKept(par, bit) == par

\* parity ^= bit;
TxParity(par, bit) == BitXor(par, bit)

\* wait_clock(LOW); write_bit(bit); wait_clock(HIGH);
ClockOut(bit) ==
    << <<"wait_clock", LOW>>, <<"write_bit", bit>>, <<"wait_clock", HIGH>> >>

\* pull_low(clock_pin_); delayMicroseconds(100); pull_low(data_pin_);
\* pull_high(clock_pin_); uint8_t const stop = 1; uint8_t parity = 1;
WB_request_to_send ==
    /\ tx_pc = "request_to_send"
    /\ line_ops' = line_ops \o << <<"pull_low", clock_pin_>>,
                                 <<"pull_low", data_pin_>>,
                                 <<"pull_high", clock_pin_>> >>
    /\ tx_parity' = 1
    /\ tx_i' = 0
    /\ tx_pc' = "payload"
    /\ UNCHANGED <<tx_byte, tx_data, line_control, wbvars, notx>>

\* for (int i = 0; i < 8; i++) { bit = data & 0x01; parity ^= bit;
\*   data >>= 1; wait_clock(LOW); write_bit(bit); wait_clock(HIGH); }
WB_payload_bit ==
    /\ tx_pc = "payload"
    /\ tx_i < 8
    /\ LET bit == TxBit(tx_data) IN
         /\ tx_parity' = TxParity(tx_parity, bit)
         /\ tx_data' = ShiftRight(tx_data, 1)
         /\ line_ops' = line_ops \o ClockOut(bit)
    /\ tx_i' = tx_i + 1
    /\ tx_pc' = IF tx_i + 1 < 8 THEN "payload" ELSE "parity"
    /\ UNCHANGED <<tx_byte, line_control, wbvars, notx>>

\* wait_clock(LOW); write_bit(parity); wait_clock(HIGH);
WB_parity_bit ==
    /\ tx_pc = "parity"
    /\ line_ops' = line_ops \o ClockOut(tx_parity)
    /\ tx_pc' = "stop"
    /\ UNCHANGED <<tx_byte, tx_data, tx_parity, tx_i, line_control, wbvars, notx>>

\* wait_clock(LOW); write_bit(stop); wait_clock(HIGH);
WB_stop_bit ==
    /\ tx_pc = "stop"
    /\ line_ops' = line_ops \o ClockOut(1)
    /\ tx_pc' = "line_control"
    /\ UNCHANGED <<tx_byte, tx_data, tx_parity, tx_i, line_control, wbvars, notx>>

\* wait_clock(LOW); uint8_t line_control = read_bit(); wait_clock(HIGH);
\* if (line_control != LOW) Serial.println("Line control error.");
WB_line_control ==
    /\ tx_pc = "line_control"
    /\ \E lc \in Bits :
         /\ line_control' = lc
         /\ line_ops' = line_ops
               \o << <<"wait_clock", LOW>>, <<"read_bit", lc>>, <<"wait_clock", HIGH>> >>
               \o (IF lc # LOW THEN << <<"println", 0>> >> ELSE <<>>)
    /\ tx_pc' = "ack"
    /\ UNCHANGED <<tx_byte, tx_data, tx_parity, tx_i, wbvars, notx>>

\* uint8_t ack = read_byte(); if (ack != 0xFA) { ...; return false; } }
WB_ack ==
    /\ tx_pc = "ack"
    /\ \E f \in ReplyFrames :
         /\ ack' = read_byte(f)
         /\ wb_ret' \in WriteByteReturn(read_byte(f))
         /\ line_ops' = Append(line_ops, <<"read_byte", read_byte(f)>>)
    /\ tx_pc' = "returned"
    /\ UNCHANGED <<tx_byte, tx_data, tx_parity, tx_i, line_control, notx>>

---------------------------------------------------------------------------
(* hid::report: hid.h:49-58 *)

\* uint8_t m[4];
SizeofM == 4

\* the arguments report is called with: uint8_t buttons, int8_t deltas
ReportButtons == {0, 1, 5}
ReportDeltas  == {-128, -1, 127}

\* everything hid::report leaves alone
nohid == <<rxvars, irqvars, pc, stack, cmdvars, wbvars, winvars, logvars,
           waitvars, ghostvars, txvars, rbvars>>

\* m[k] = v; the store of an element of m.  An index inside m changes that
\* element.  An index outside m is a store through a pointer past the
\* array: the build either makes it, into whatever lies behind m, or
\* drops it; where it is made is recorded in report_oob.
StoreM(mem, k, v, made) ==
    IF k < SizeofM
    THEN [buf |-> [mem.buf EXCEPT ![k + 1] = U8(v)], oob |-> mem.oob]
    ELSE [buf |-> mem.buf,
          oob |-> IF made THEN Append(mem.oob, <<k, U8(v)>>) ELSE mem.oob]

\* m[0] = buttons; m[1] = x; m[2] = y; m[3] = vscroll; m[4] = hscroll;
\* HID().SendReport(1, m, sizeof(m));
report ==
    /\ report_pc = "called"
    /\ \E made \in BOOLEAN :
         LET m0 == [buf |-> report_m, oob |-> report_oob]
             m1 == StoreM(m0, 0, report_args[1], made)
             m2 == StoreM(m1, 1, report_args[2], made)
             m3 == StoreM(m2, 2, report_args[3], made)
             m4 == StoreM(m3, 3, report_args[4], made)
             m5 == StoreM(m4, 4, report_args[5], made)
         IN /\ report_m' = m5.buf
            /\ report_oob' = m5.oob
            /\ report_sent' = <<1, SubSeq(m5.buf, 1, SizeofM)>>
    /\ report_pc' = "returned"
    /\ UNCHANGED <<report_args, nohid>>

---------------------------------------------------------------------------
(* RingBuffer<T, N>: synaptics.h:16-60, with T = int and N = RingN.  A    *)
(* bool is kept as 0 or 1.                                                *)

\* the items pushed, and T()
RingItems == {1, 2}
DefaultT  == 0

\* everything the ring buffer leaves alone
noring == <<rxvars, irqvars, pc, stack, cmdvars, wbvars, winvars, logvars,
            waitvars, ghostvars, txvars, hidvars>>

\* what a call of push_back that stored its item returns: the function
\* ends with "return;" (synaptics.h:53), which gives its bool no value
PushBackReturn == {0, 1}

\* T pop_front() { T item = m_buffer[m_front]; m_front = (m_front + 1) % N;
\*   if (m_size == 0) return T(); else { m_size--; return item; } }
pop_front ==
    LET item == m_buffer[m_front] IN
    /\ m_front' = (m_front + 1) % RingN
    /\ IF m_size = 0
       THEN /\ rb_ret' = <<"pop_front", DefaultT>>
            /\ UNCHANGED <<m_size, rb_fifo>>
       ELSE /\ m_size' = m_size - 1
            /\ rb_ret' = <<"pop_front", item>>
            /\ rb_fifo' = Tail(rb_fifo)
    /\ UNCHANGED <<m_buffer, m_back, noring>>

\* bool push_back(T item) { if (m_size == N) return false;
\*   m_buffer[m_back] = item; m_back = (m_back + 1) % N; m_size++; return; }
push_back(item) ==
    IF m_size = RingN
    THEN /\ rb_ret' = <<"push_back", 0>>
         /\ UNCHANGED <<m_buffer, m_size, m_front, m_back, rb_fifo, noring>>
    ELSE /\ m_buffer' = [m_buffer EXCEPT ![m_back] = item]
         /\ m_back' = (m_back + 1) % RingN
         /\ m_size' = m_size + 1
         /\ \E b \in PushBackReturn : rb_ret' = <<"push_back", b>>
         /\ rb_fifo' = Append(rb_fifo, item)
         /\ UNCHANGED <<m_front, noring>>

---------------------------------------------------------------------------
(* Specifications *)

\* write_byte not called on its own, hid::report not called, and the ring
\* buffer as its constructor leaves it
TxParked ==
    /\ tx_pc = "none" /\ tx_byte = 0 /\ tx_data = 0 /\ tx_parity = 0
    /\ tx_i = 0 /\ line_control = 0 /\ line_ops = <<>>

HidParked ==
    /\ report_pc = "none" /\ report_args = <<>> /\ report_m = <<>>
    /\ report_oob = <<>> /\ report_sent = <<>>

RingParked ==
    /\ m_buffer = [k \in 0..(RingN - 1) |-> 0]
    /\ m_size = 0 /\ m_front = 0 /\ m_back = 0
    /\ rb_fifo = <<>> /\ rb_ret = <<"none", 0>>

\* the edge counters at their bound, where they stay: the state of a run
\* in which the accepted edges are not counted
NotCounting == edges = MaxEdges /\ delivered = 0

IdleHost ==
    /\ pc = "idle" /\ stack = <<>>
    /\ command = 0 /\ args = <<>> /\ result_ptr = "nullptr" /\ result = <<>>
    /\ send = 0 /\ receive = 0 /\ i = 0
    /\ ack = 0 /\ wb_ret = TRUE
    /\ oplog = <<>> /\ wire = <<>> /\ cmdlog = <<>>

Booted ==
    /\ receive_index = 0 /\ receive_buffer = 0 /\ parity = 0
    /\ sreg_i = TRUE /\ intf = FALSE
    /\ sampled = <<>> /\ calls = <<>> /\ errs = {} /\ entry_index = -1
    /\ wcall = "none" /\ waits = <<>> /\ clock_line = HIGH /\ elapsed = 0
    /\ nacked = FALSE /\ cmd_ret = "none" /\ clock_seen = -1

\* the bytes the client encodes with special_command while the receiver runs
SpecialBytes == {197, 3}

\* The protocol engine with the device sending at any time
Init == Booted /\ IdleHost /\ NotCounting /\ TxParked /\ HidParked /\ RingParked

Next ==
    \/ ClockFalls
    \/ Interrupt
    \/ Client_ps2_command
    \/ reset
    \/ enable
    \/ disable
    \/ \E b \in SpecialBytes : Client_special_command(b)
    \/ special_command
    \/ Cmd_write_opcode
    \/ Cmd_write_arg
    \/ Cmd_read_result
    \/ Cmd_return

Spec == Init /\ [][Next]_vars

\* The command layer alone, the device sending nothing of its own:
\* special_command(b) for every byte b, status_request for the codes init
\* queries, and init itself
StatusCodes == {0, 2, 8, 12}

InitSyn ==
    /\ Booted
    /\ NotCounting /\ TxParked /\ HidParked /\ RingParked
    /\ pc = "synaptics"
    /\ command = 0 /\ args = <<>> /\ result_ptr = "nullptr"
    /\ send = 0 /\ receive = 0 /\ i = 0
    /\ ack = 0 /\ wb_ret = TRUE
    /\ oplog = <<>> /\ wire = <<>> /\ cmdlog = <<>>
    /\ \/ \E b \in Bytes :
            /\ stack = <<Call("special_command", b, 6)>>
            /\ result = <<>>
       \/ \E c \in StatusCodes :
            /\ stack = <<Call("status_request", c, 0)>>
            /\ result = <<-1, -1, -1>>
       \/ /\ stack = <<Call("init", 0, 1)>>
          /\ result = <<-1, -1, -1>>

NextSyn ==
    \/ special_command
    \/ status_request
    \/ init
    \/ Cmd_write_opcode
    \/ Cmd_write_arg
    \/ Cmd_read_result
    \/ Cmd_return

SpecSyn == InitSyn /\ [][NextSyn]_vars

\* write_byte(b) on its own, for every byte b
InitTx ==
    /\ Booted /\ IdleHost /\ NotCounting /\ HidParked /\ RingParked
    /\ tx_pc = "request_to_send"
    /\ tx_byte \in Bytes
    /\ tx_data = tx_byte
    /\ tx_parity = 0 /\ tx_i = 0 /\ line_control = 0 /\ line_ops = <<>>

NextTx ==
    \/ WB_request_to_send
    \/ WB_payload_bit
    \/ WB_parity_bit
    \/ WB_stop_bit
    \/ WB_line_control
    \/ WB_ack

SpecTx == InitTx /\ [][NextTx]_vars

\* hid::report called once, with every combination of the argument values;
\* m is a local array and holds anything when the call starts
InitHid ==
    /\ Booted /\ IdleHost /\ NotCounting /\ TxParked /\ RingParked
    /\ report_pc = "called"
    /\ report_args \in ReportButtons \X ReportDeltas \X ReportDeltas
                         \X ReportDeltas \X ReportDeltas
    /\ report_m \in {<<0, 0, 0, 0>>, <<255, 255, 255, 255>>}
    /\ report_oob = <<>>
    /\ report_sent = <<>>

NextHid == report

SpecHid == InitHid /\ [][NextHid]_vars

\* A ring buffer after its constructor, which sets the three indices and
\* leaves m_buffer as it finds it, under any sequence of pushes and pops
InitRing ==
    /\ Booted /\ IdleHost /\ NotCounting /\ TxParked /\ HidParked
    /\ m_buffer \in [0..(RingN - 1) -> {DefaultT} \cup RingItems]
    /\ m_size = 0 /\ m_front = 0 /\ m_back = 0
    /\ rb_fifo = <<>> /\ rb_ret = <<"none", 0>>

NextRing ==
    \/ pop_front
    \/ \E item \in RingItems : push_back(item)

SpecRing == InitRing /\ [][NextRing]_vars

\* The receiver alone: the device clocks bits in, the host issues no
\* command, and the edges accepted are counted from the first one
InitRx ==
    /\ Booted /\ IdleHost
    /\ edges = 0 /\ delivered = 0
    /\ TxParked /\ HidParked /\ RingParked

NextRx ==
    \/ ClockFalls
    \/ Interrupt

SpecRx == InitRx /\ [][NextRx]_vars

---------------------------------------------------------------------------
(* The clock waits of a call: ps2.cpp:53-67.  waits is the list of the    *)
(* levels the wait_clock calls still to come wait for, in program order;  *)
(* elapsed is millis() - millis_start of the wait in progress, which the  *)
(* loop only compares with 25.                                            *)

WaitBudget == 25

Repeat8(w) == w \o w \o w \o w \o w \o w \o w \o w

\* read_byte: start bit, 8 data bits, parity bit, stop bit (ps2.cpp:126-151)
ReadByteWaits ==
    <<LOW, HIGH>> \o Repeat8(<<LOW, HIGH>>) \o <<LOW, HIGH>> \o <<LOW>>

\* write_byte: 8 data bits, parity, stop, line control, then read_byte
\* for the ACK (ps2.cpp:178-210)
WriteByteWaits ==
    Repeat8(<<LOW, HIGH>>) \o <<LOW, HIGH>> \o <<LOW, HIGH>> \o <<LOW, HIGH>>
       \o ReadByteWaits

RECURSIVE Times(_, _)
Times(n, w) == IF n = 0 THEN <<>> ELSE w \o Times(n - 1, w)

\* ps2_command: the opcode, send arguments, receive responses (ps2.cpp:234-245)
CommandWaits(cmd) ==
    WriteByteWaits \o Times(SendCount(cmd), WriteByteWaits)
       \o Times(ReceiveCount(cmd), ReadByteWaits)

\* the descriptors whose waits are followed
WaitCommands ==
    {PSMOUSE_CMD_ENABLE, PSMOUSE_CMD_SETRES, PSMOUSE_CMD_RESET_BAT,
     PSMOUSE_CMD_GETINFO}

hostidle == <<pc, stack, cmdvars, wbvars, winvars, logvars, ghostvars>>

\* ps2_command(cmd, ...) is entered: disable_interrupt(), then its waits
W_ps2_command ==
    /\ wcall = "none"
    /\ \E cmd \in WaitCommands : waits' = CommandWaits(cmd)
    /\ disable_interrupt
    /\ wcall' = "ps2_command"
    /\ elapsed' = 0
    /\ UNCHANGED <<intf, clock_line, hostidle, compvars>>

\* the client calls write_byte itself; nothing touches the interrupt flag
W_write_byte ==
    /\ wcall = "none"
    /\ waits' = WriteByteWaits
    /\ wcall' = "write_byte"
    /\ elapsed' = 0
    /\ UNCHANGED <<rxvars, irqvars, clock_line, hostidle, compvars>>

\* while (digitalRead(clock_pin_) != value): the level is there, the wait
\* returns and the next one takes its millis_start
wait_clock_reached ==
    /\ waits # <<>>
    /\ clock_line = Head(waits)
    /\ waits' = Tail(waits)
    /\ elapsed' = 0
    /\ UNCHANGED <<rxvars, irqvars, wcall, clock_line, hostidle, compvars>>

\* if (millis() - millis_start > 25) { ...; return; }
wait_clock_timed_out ==
    /\ waits # <<>>
    /\ clock_line # Head(waits)
    /\ elapsed > WaitBudget
    /\ waits' = Tail(waits)
    /\ elapsed' = 0
    /\ UNCHANGED <<rxvars, irqvars, wcall, clock_line, hostidle, compvars>>

\* the call returns; ps2_command ends with enable_interrupt()
W_return ==
    /\ wcall # "none"
    /\ waits = <<>>
    /\ IF wcall = "ps2_command" THEN enable_interrupt ELSE UNCHANGED sreg_i
    /\ wcall' = "none"
    /\ UNCHANGED <<rxvars, intf, waits, clock_line, elapsed, hostidle, compvars>>

\* millis() is advanced by the timer-0 overflow interrupt of the Arduino
\* core, which like every interrupt is served only while the global
\* interrupt flag is set
Timer0Tick ==
    /\ sreg_i
    /\ waits # <<>>
    /\ elapsed <= WaitBudget
    /\ elapsed' = elapsed + 1
    /\ UNCHANGED <<rxvars, irqvars, wcall, waits, clock_line, hostidle, compvars>>

\* the device moves the clock line as it pleases; a falling edge latches
\* the interrupt flag
DeviceClock ==
    /\ clock_line' = 1 - clock_line
    /\ intf' = (intf \/ clock_line = HIGH)
    /\ UNCHANGED <<rxvars, sreg_i, wcall, waits, elapsed, hostidle, compvars>>

\* what the data line carries when the handler samples it during a call of
\* write_byte made by the client
DirectData == {HIGH}

\* with interrupts enabled a latched edge runs the handler, which samples
\* the clock line as it is then
W_Interrupt ==
    /\ sreg_i
    /\ intf
    /\ intf' = FALSE
    /\ \E bit \in DirectData : bit_received(clock_line, bit)
    /\ cmd_ret' = "none"
    /\ UNCHANGED <<sreg_i, pc, stack, cmdvars, wbvars, logvars, waitvars,
                   nacked, compvars>>

HostWaitStep == wait_clock_reached \/ wait_clock_timed_out \/ W_return

InitWait == Booted /\ IdleHost /\ NotCounting /\ TxParked /\ HidParked /\ RingParked

NextWait ==
    \/ W_ps2_command
    \/ W_write_byte
    \/ wait_clock_reached
    \/ wait_clock_timed_out
    \/ W_return
    \/ Timer0Tick
    \/ DeviceClock

SpecWait == InitWait /\ [][NextWait]_vars

\* The client calls write_byte itself while the device clocks bits
InitDirect == InitWait

NextDirect ==
    \/ W_write_byte
    \/ wait_clock_reached
    \/ wait_clock_timed_out
    \/ W_return
    \/ Timer0Tick
    \/ DeviceClock
    \/ W_Interrupt

SpecDirect == InitDirect /\ [][NextDirect]_vars

\* the processor keeps executing the foreground code, and the timer keeps
\* counting; nothing obliges the device to move the clock
FairSpecWait == SpecWait /\ WF_vars(HostWaitStep) /\ WF_vars(Timer0Tick)

---------------------------------------------------------------------------
(* Properties *)

\* a command transaction is in progress: from disable_interrupt() to the
\* enable_interrupt() that ends ps2_command
InTx == pc \in {"write_opcode", "write_args", "read_result", "enable_interrupt"}

ReceiverIdle == receive_index = 0 /\ receive_buffer = 0 /\ parity = 0

WellFormed == [b \in Bytes |-> Frame(b)]

IsPrefix(p, q) == Len(p) <= Len(q) /\ p = SubSeq(q, 1, Len(p))

\* the bits sampled so far in the frame in progress
CurrentFrame == IF Len(sampled) = 11 THEN <<>> ELSE sampled

RECURSIVE XorOf(_, _, _)
XorOf(f, from, to) ==
    IF from > to THEN 0 ELSE (f[from] + XorOf(f, from + 1, to)) % 2

Min(x, y) == IF x < y THEN x ELSE y

\* C1: from receive_index = 0, the 11 edges of a well-formed frame of any
\* byte b invoke the callback exactly once, with b (no call before the
\* eleventh edge), and leave receive_index = 0, receive_buffer = 0,
\* parity = 0.
C1_WellFormedFrameDelivered ==
    \A b \in Bytes :
        /\ sampled = WellFormed[b] => calls = <<b>> /\ ReceiverIdle
        /\ (sampled # <<>> /\ Len(sampled) < 11 /\ IsPrefix(sampled, WellFormed[b]))
              => calls = <<>>

C1_Witness ==
    /\ sampled = Frame(165)
    /\ calls = <<165>>
    /\ pc = "idle"

\* C2: a transaction that starts on a partially received frame leaves the
\* receiver at receive_index = 0, receive_buffer = 0, parity = 0 from its
\* first step until it ends, and the first edge accepted afterwards is
\* handled as a start bit: position 0, nothing stored, position 1 next.
C2_PartialFrameDiscarded ==
    /\ []((InTx /\ entry_index > 0) => ReceiverIdle)
    /\ [][(entry_index > 0 /\ entry_index' = -1)
             => /\ receive_index = 0
                /\ receive_index' = 1
                /\ receive_buffer' = 0
                /\ parity' = 0
                /\ Len(sampled') = 1]_vars

C2_Witness ==
    /\ entry_index = 7
    /\ pc = "enable_interrupt"
    /\ ReceiverIdle

\* C3: the handler never runs between the start and the end of a
\* ps2_command transaction, whoever called it: interrupts are disabled for
\* the whole transaction and no step of it is a run of bit_received.
C3_HandlerExcluded ==
    /\ [](InTx => ~sreg_i)
    /\ [][InTx => ~Interrupt]_vars

C3_Witness ==
    /\ pc = "write_opcode"
    /\ stack # <<>>
    /\ intf
    /\ wire # <<>>

\* C4: write_byte returns false exactly when the acknowledgement it read
\* is not 0xFA, and true when it is.
C4_WriteByteReportsAck ==
    (InTx /\ oplog # <<>>) => (wb_ret <=> ack = ACK)

\* C6: ps2_command writes the opcode, then args[0..s-1] in order, then
\* reads r response bytes into result[0..r-1], s and r being bits 15..12
\* and 11..8 of the descriptor; nothing else and nothing out of order.
C6_Expected(cmd, a) ==
    <<cmd % 256>> \o [k \in 1..((cmd \div 4096) % 16) |-> a[k]]

C6_CommandOrder ==
    InTx =>
      LET s == (command \div 4096) % 16
          r == (command \div 256) % 16
          n == Len(oplog)
      IN /\ n <= 1 + s + r
         /\ \A k \in 1..n :
               IF k <= 1 + s
               THEN oplog[k] = <<"write_byte", C6_Expected(command, args)[k]>>
               ELSE oplog[k][1] = "read_byte"
         /\ pc = "enable_interrupt" =>
               /\ n = 1 + s + r
               /\ result_ptr = "buffer" =>
                     \A k \in 1..r : result[k] = oplog[1 + s + k][2]

C6_Witness ==
    /\ pc = "enable_interrupt"
    /\ (command \div 4096) % 16 = 1
    /\ (command \div 256) % 16 = 2
    /\ Len(oplog) = 4
    /\ result_ptr = "buffer"

\* C9: a frame with one data bit flipped and the parity bit left alone is
\* still delivered exactly once, as the byte of the sampled data bits, and
\* the receiver returns to receive_index = 0; the parity error is logged.
C9_ParityFaultDelivered ==
    Len(sampled) = 11 =>
      \A b \in Bytes, k \in 0..7 :
          sampled = Flip(WellFormed[b], k + 2)
             => /\ calls = <<BitXor(b, 2 ^ k)>>
                /\ receive_index = 0
                /\ "Parity bit error." \in errs

C9_Witness ==
    /\ sampled = Flip(Frame(165), 4)
    /\ calls = <<161>>
    /\ errs = {"Parity bit error."}

\* C10: receive_index is in 0..10, every bit of receive_buffer at position
\* >= receive_index - 1 is zero (receive_buffer = 0 at receive_index = 0),
\* and parity is the XOR of the bits sampled at positions 1..9 of the frame
\* in progress.
C10_ReceiverInvariant ==
    /\ receive_index \in 0..10
    /\ receive_index = Len(CurrentFrame)
    /\ \A k \in 0..7 : k >= receive_index - 1 => Bit(receive_buffer, k) = 0
    /\ receive_index = 0 => receive_buffer = 0
    /\ parity = XorOf(CurrentFrame, 2, Min(10, Len(CurrentFrame)))

C10_Witness ==
    /\ receive_index = 10
    /\ receive_buffer = 165
    /\ parity = 1
    /\ pc = "synaptics"

\* C5: a ps2_command transaction always terminates, whatever the device
\* does with the clock, and interrupts are enabled again afterwards.
C5_CommandTerminates ==
    (wcall = "ps2_command") ~> (wcall = "none" /\ sreg_i)

\* a write_byte called with interrupts enabled does return: there the
\* 25 ms budget of each wait runs out
WriteByteTerminates == (wcall = "write_byte") ~> (wcall = "none")

\* C7: the mode-programming part of init issues DISABLE, SETSCALE11 twice,
\* special_command(0xC5), SETRATE 0x14, SETSCALE11 twice,
\* special_command(0x03), SETRATE 0xC8, ENABLE, in this order and nothing
\* else; the bytes written are F5 E6 E6 E8 03 E8 00 E8 01 E8 01 F3 14
\* E6 E6 E8 00 E8 00 E8 00 E8 03 F3 C8 F4.
C7_ModeCommands ==
    << <<245, <<>>>>, <<230, <<>>>>, <<230, <<>>>>,
       <<4328, <<3>>>>, <<4328, <<0>>>>, <<4328, <<1>>>>, <<4328, <<1>>>>,
       <<4339, <<20>>>>,
       <<230, <<>>>>, <<230, <<>>>>,
       <<4328, <<0>>>>, <<4328, <<0>>>>, <<4328, <<0>>>>, <<4328, <<3>>>>,
       <<4339, <<200>>>>, <<244, <<>>>> >>

C7_ModeBytes ==
    <<245, 230, 230, 232, 3, 232, 0, 232, 1, 232, 1, 243, 20,
      230, 230, 232, 0, 232, 0, 232, 0, 232, 3, 243, 200, 244>>

C7_InInit == stack # <<>> /\ stack[1].fn = "init"

C7_ModeProgramming ==
    C7_InInit =>
      LET ip    == stack[1].k
          n     == Len(cmdlog)
          m     == Len(wire)
          \* the four status queries before: 4 * (4 SETRES + GETINFO)
          cmds0 == 20
          wire0 == 36
      IN /\ (Len(stack) = 1 /\ pc = "synaptics" /\ ip = ModeProgrammingStart)
              => n = cmds0 /\ m = wire0
         /\ ip > ModeProgrammingStart
              => /\ n >= cmds0 /\ m >= wire0
                 /\ IsPrefix(SubSeq(cmdlog, cmds0 + 1, n), C7_ModeCommands)
                 /\ IsPrefix(SubSeq(wire, wire0 + 1, m), C7_ModeBytes)
         /\ (Len(stack) = 1 /\ pc = "synaptics" /\ ip > Len(InitScript))
              => /\ SubSeq(cmdlog, cmds0 + 1, n) = C7_ModeCommands
                 /\ SubSeq(wire, wire0 + 1, m) = C7_ModeBytes

C7_Witness ==
    /\ C7_InInit
    /\ Len(stack) = 1
    /\ pc = "synaptics"
    /\ stack[1].k = Len(InitScript) + 1
    /\ Len(wire) = 62

\* C8: special_command(b) issues exactly four SETRES commands whose
\* arguments a1..a4 are in 0..3, carry the bit pairs of b most significant
\* pair first, and decode to b as a1*64 + a2*16 + a3*4 + a4.
C8_TopSpecial == Len(stack) = 1 /\ stack[1].fn = "special_command"

C8_SpecialCommandRoundTrip ==
    C8_TopSpecial =>
      LET b == stack[1].a
          n == Len(cmdlog)
      IN /\ n <= 4
         /\ \A j \in 1..n :
               /\ cmdlog[j][1] = PSMOUSE_CMD_SETRES
               /\ Len(cmdlog[j][2]) = 1
               /\ cmdlog[j][2][1] \in 0..3
               /\ cmdlog[j][2][1] = (b \div (4 ^ (4 - j))) % 4
         /\ (pc = "synaptics" /\ stack[1].k < 0)
               => /\ n = 4
                  /\ cmdlog[1][2][1] * 64 + cmdlog[2][2][1] * 16
                       + cmdlog[3][2][1] * 4 + cmdlog[4][2][1] = b
                  /\ wire = <<232, cmdlog[1][2][1], 232, cmdlog[2][2][1],
                              232, cmdlog[3][2][1], 232, cmdlog[4][2][1]>>

C8_Witness ==
    /\ C8_TopSpecial
    /\ stack[1].a = 197
    /\ stack[1].k < 0
    /\ pc = "synaptics"
    /\ wire = <<232, 3, 232, 0, 232, 1, 232, 1>>

\* C11: the callback is invoked only by a run of the handler that
\* completes a frame (position 10, interrupts enabled, clock sampled low),
\* with the byte accumulated; no step of a transaction invokes it, so no
\* ACK and no response byte read by read_byte ever reaches it.
C11_CallbackOnlyFromHandler ==
    /\ [](InTx => calls = <<>>)
    /\ [][(calls' # calls /\ calls' # <<>>)
             => /\ ~InTx
                /\ sreg_i /\ intf /\ ~intf'
                /\ clock_seen' = LOW
                /\ receive_index = 10
                /\ calls' = <<receive_buffer>>
                /\ oplog' = oplog]_vars

C11_Witness ==
    /\ pc = "enable_interrupt"
    /\ oplog = <<<<"write_byte", 233>>, <<"read_byte", 170>>, <<"read_byte", 0>>>>
    /\ ack = ACK
    /\ entry_index = 10
    /\ calls = <<>>

\* C12: once a write of a command was not acknowledged, the command still
\* performs every remaining argument write and every response read, each
\* exactly once and in order, with interrupts disabled; the step that ends
\* it enables interrupts and returns true.
C12_NackNotPropagated ==
    /\ []((InTx /\ nacked) =>
            LET s == (command \div 4096) % 16
                r == (command \div 256) % 16
                n == Len(oplog)
            IN /\ ~sreg_i
               /\ n >= 1 /\ n <= 1 + s + r
               /\ oplog[1] = <<"write_byte", command % 256>>
               /\ \A k \in 2..n :
                     IF k <= 1 + s
                     THEN oplog[k] = <<"write_byte", args[k - 1]>>
                     ELSE oplog[k][1] = "read_byte"
               /\ pc = "enable_interrupt" <=> n = 1 + s + r)
    /\ [][(pc = "enable_interrupt" /\ pc' # pc)
             => sreg_i' /\ cmd_ret' = "true"]_vars

C12_Witness ==
    /\ pc = "enable_interrupt"
    /\ nacked
    /\ ack = ACK
    /\ send = 2 /\ receive = 2
    /\ Len(oplog) = 5

\* C13: a run of the handler that samples the clock line as not low
\* changes nothing: receive_index, receive_buffer and parity keep their
\* values, the data line is not sampled, the callback is not invoked and
\* nothing is logged, at whatever position the frame is.
C13_SpuriousTriggerIgnored ==
    [][clock_seen' = HIGH
          => UNCHANGED <<receive_index, receive_buffer, parity,
                         sampled, calls, errs>>]_vars

C13_Witness ==
    /\ clock_seen = HIGH
    /\ receive_index = 10
    /\ receive_buffer = 165
    /\ ~intf
    /\ calls = <<>>

\* C14: with no command transaction, after n accepted edges, whatever the
\* data line carried, receive_index = n mod 11 and the callback has been
\* invoked floor(n / 11) times; the invocations happen at the edges whose
\* number is a multiple of 11.
C14_OneStepPerEdge ==
    /\ [](edges < MaxEdges =>
            /\ receive_index = edges % 11
            /\ delivered = edges \div 11)
    /\ [][(edges' < MaxEdges /\ delivered' # delivered)
             => /\ edges' = edges + 1
                /\ edges' % 11 = 0
                /\ delivered' = delivered + 1]_vars

C14_Witness ==
    /\ edges = 22
    /\ delivered = 2
    /\ receive_index = 0
    /\ errs = {"Start bit error.", "Parity bit error.", "Stop bit error."}

\* C17: read_byte and the handler decode the same 11 sampled bits to the
\* same byte, data bit i at bit position i, whether the frame is well
\* formed or not, and report the same start, parity and stop violations;
\* neither gives up on the frame.
C17_Violation(msg) ==
    IF msg = "Start bit error." THEN "start"
    ELSE IF msg \in {"Parity bit error.", "Parity error."} THEN "parity"
    ELSE IF msg = "Stop bit error." THEN "stop"
    ELSE msg

C17_SameDecoding ==
    Len(sampled) = 11 =>
        /\ calls = <<read_byte(sampled)>>
        /\ \A k \in 0..7 : Bit(read_byte(sampled), k) = sampled[k + 2]
        /\ {C17_Violation(e) : e \in errs}
              = {C17_Violation(e) : e \in ReadByteErrs(sampled)}

C17_Witness ==
    /\ sampled = <<1, 1, 0, 1, 0, 0, 1, 0, 1, 0, 0>>
    /\ calls = <<165>>
    /\ read_byte(sampled) = 165
    /\ ReadByteErrs(sampled) = {"Start bit error.", "Parity error.", "Stop bit error."}
    /\ errs = {"Start bit error.", "Parity bit error.", "Stop bit error."}

\* C15: write_byte makes its line operations in one order for every byte:
\* clock low, data low, clock released; the 8 data bits least significant
\* first, each written between a wait for clock low and a wait for clock
\* high; the parity bit and the stop bit 1 the same way; one read of the
\* line-control bit between a wait for low and a wait for high; one
\* read_byte for the ACK, also after a line-control bit of 1, which is
\* only logged.
C15_Slot(name, v) ==
    << <<"wait_clock", 0>>, <<name, v>>, <<"wait_clock", 1>> >>

C15_Order(b, par, lc, a) ==
    << <<"pull_low", 0>>, <<"pull_low", 1>>, <<"pull_high", 0>> >>
      \o C15_Slot("write_bit", b % 2)
      \o C15_Slot("write_bit", (b \div 2) % 2)
      \o C15_Slot("write_bit", (b \div 4) % 2)
      \o C15_Slot("write_bit", (b \div 8) % 2)
      \o C15_Slot("write_bit", (b \div 16) % 2)
      \o C15_Slot("write_bit", (b \div 32) % 2)
      \o C15_Slot("write_bit", (b \div 64) % 2)
      \o C15_Slot("write_bit", (b \div 128) % 2)
      \o C15_Slot("write_bit", par)
      \o C15_Slot("write_bit", 1)
      \o C15_Slot("read_bit", lc)
      \o (IF lc = 1 THEN << <<"println", 0>> >> ELSE <<>>)
      \o << <<"read_byte", a>> >>

C15_LineOrder ==
    /\ tx_pc \notin {"none", "returned"} =>
          \E par \in Bits, lc \in Bits :
              IsPrefix(line_ops, C15_Order(tx_byte, par, lc, 0))
                 /\ Len(line_ops) < Len(C15_Order(tx_byte, par, lc, 0))
    /\ tx_pc = "returned" =>
          \E par \in Bits :
              line_ops = C15_Order(tx_byte, par, line_control, ack)

C15_Witness ==
    /\ tx_pc = "returned"
    /\ tx_byte = 197
    /\ line_control = 1
    /\ Len(line_ops) = 38
    /\ line_ops[37] = <<"println", 0>>
    /\ line_ops[38] = <<"read_byte", ACK>>

\* C16: for every byte b the parity bit write_byte puts on the line is
\* 1 XOR the XOR of the bits of b, so the 8 data bits and the parity bit
\* hold an odd number of ones; decoded by the receiver's rule the frame
\* gives no parity error and the byte b.
C16_Sent == SelectSeq(line_ops, LAMBDA o : o[1] = "write_bit")

C16_Frame == <<0>> \o [k \in 1..Len(C16_Sent) |-> C16_Sent[k][2]]

C16_OddParity ==
    tx_pc \in {"stop", "line_control", "ack", "returned"} =>
        /\ Len(C16_Frame) >= 10
        /\ C16_Frame[10] = (1 + XorOf(Frame(tx_byte), 2, 9)) % 2
        /\ (C16_Frame[2] + C16_Frame[3] + C16_Frame[4] + C16_Frame[5]
              + C16_Frame[6] + C16_Frame[7] + C16_Frame[8] + C16_Frame[9]
              + C16_Frame[10]) % 2 = 1
        /\ tx_pc = "returned" =>
              /\ Len(C16_Frame) = 11
              /\ read_byte(C16_Frame) = tx_byte
              /\ ReadByteErrs(C16_Frame) = {}
              /\ UpdateParity(ReadByteParity(C16_Frame, 0, 0), C16_Frame[10]) = 1

C16_Witness ==
    /\ tx_pc = "returned"
    /\ tx_byte = 7
    /\ C16_Frame = <<0, 1, 1, 1, 0, 0, 0, 0, 0, 0, 1>>

\* C18: hid::report stores only into the 4 elements of its buffer, and
\* what it sends is report ID 1 with the 4 bytes buttons, x, y, vscroll;
\* hscroll is stored nowhere and not sent.
C18_ReportInBounds ==
    report_pc = "returned" =>
        /\ report_oob = <<>>
        /\ report_sent = <<1, <<report_args[1] % 256, report_args[2] % 256,
                                report_args[3] % 256, report_args[4] % 256>>>>

\* C19: a write_byte called by the client runs with the handler
\* suspended: interrupts are disabled while it runs, and no step taken
\* during it changes receive_index, receive_buffer or parity or invokes
\* the callback.
C19_HandlerSuspended ==
    /\ [](wcall = "write_byte" => ~sreg_i)
    /\ [][wcall = "write_byte"
             => UNCHANGED <<receive_index, receive_buffer, parity, calls>>]_vars

\* C20: the ring buffer is a bounded FIFO: 0 <= m_size <= N and
\* m_back = (m_front + m_size) mod N in every state; push_back on a full
\* buffer returns false and changes nothing; pop_front on an empty buffer
\* returns T() and changes nothing; a pop_front on a buffer that is not
\* empty returns the oldest item pushed and not yet popped.
C20_Members == <<m_buffer, m_size, m_front, m_back>>

C20_BoundedFifo ==
    /\ [](/\ 0 <= m_size /\ m_size <= RingN
          /\ m_back = (m_front + m_size) % RingN)
    /\ [][(m_size = RingN /\ rb_ret'[1] = "push_back")
             => rb_ret'[2] = 0 /\ UNCHANGED C20_Members]_vars
    /\ [][(m_size = 0 /\ rb_ret'[1] = "pop_front")
             => rb_ret'[2] = 0 /\ UNCHANGED C20_Members]_vars
    /\ [][(m_size > 0 /\ rb_ret'[1] = "pop_front")
             => rb_ret'[2] = Head(rb_fifo)]_vars

===========================================================================
